---- MODULE Spec2Model ----
(***************************************************************************)
(* The three pipeline stages of process-orchestrator                       *)
(*   scripts/load_data.py        (Loader,      stage "load")               *)
(*   scripts/process_data.py     (Transformer, stage "process")            *)
(*   scripts/analyze_results.py  (Analyzer,    stage "analyze")            *)
(* as one state machine: an external caller spawns one stage at a time as  *)
(* a process with an argument vector; the stage walks through the          *)
(* statements of its __main__ block and of its stage function, reading and *)
(* writing a small POSIX-like filesystem, printing lines to its standard   *)
(* output and ending with an exit code.                                    *)
(*                                                                         *)
(* Paths are sequences of components relative to the working directory     *)
(* (<<"tmp","a.json">> is "tmp/a.json", <<>> is "").  Strings that the     *)
(* code transforms are sequences of one-character strings.  A file is a    *)
(* sequence of chunks; its length is what os.path.getsize returns.         *)
(***************************************************************************)
EXTENDS Integers, Sequences, FiniteSets, TLC

VARIABLES
  fs,        \* the filesystem: [dirs, files, locked]
  fs0,       \* the filesystem as it was when the running stage was spawned
  clock,     \* number of stage processes spawned so far; datetime.now()
  stage,     \* which script the current process runs
  argv,      \* sys.argv[1:] of the current process
  pc,        \* position of the current process in its script
  data,      \* process_data: the parsed input (local `data`)
  records,   \* process_data: local `processed_records`
  size,      \* analyze_results: local `report_size`
  doc,       \* sample_data / processed_data / analysis_results
  result,    \* the dict returned by the stage function
  exc,       \* the exception caught by the top-level handler
  stdout,    \* lines printed by the current process
  exitCode,  \* -1 while running, else the process exit code
  reads,     \* paths the current process has opened for reading or stat'ed
  plan,      \* stages the pipeline caller still has to spawn
  pipe       \* the pipeline caller's bookkeeping

vars == <<fs, fs0, clock, stage, argv, pc, data, records, size, doc, result,
          exc, stdout, exitCode, reads, plan, pipe>>

(***************************************************************************)
(* Bounds                                                                  *)
(***************************************************************************)
MaxRuns == 1        \* stage processes the free caller spawns
MaxRecords == 2     \* records in an input dataset drawn at Init

(***************************************************************************)
(* Program constants                                                       *)
(***************************************************************************)
SampleRecords == 100      \* range(1, 101)
DeclaredCount == 1000     \* "records_count": 1000
ArgCount == 2             \* len(sys.argv) != 3, the script name included

Stages == {"load", "process", "analyze"}

(***************************************************************************)
(* JSON values.  Every value is a record tagged by `ty`, the payload field *)
(* is named after the type.                                                *)
(***************************************************************************)
JInt(n) == [ty |-> "int", int |-> n]
JStr(s) == [ty |-> "str", str |-> s]        \* s: sequence of characters
JLit(x) == [ty |-> "lit", lit |-> x]        \* a literal of the source text
JPath(p) == [ty |-> "path", path |-> p]     \* a path string
JTime(t) == [ty |-> "time", time |-> t]     \* datetime.now().isoformat()
JList(xs) == [ty |-> "list", list |-> xs]
JObj(ms) == [ty |-> "obj", obj |-> ms]      \* members in insertion order
Member(k, v) == [k |-> k, v |-> v]

HasKey(o, k) == \E i \in 1..Len(o.obj) : o.obj[i].k = k
Get(o, k) == o.obj[CHOOSE i \in 1..Len(o.obj) : o.obj[i].k = k].v

(***************************************************************************)
(* Strings: str.upper() and the f-string "record_{i}"                      *)
(***************************************************************************)
LowerCase == <<"a","b","c","d","e","f","g","h","i","j","k","l","m",
               "n","o","p","q","r","s","t","u","v","w","x","y","z">>
UpperCase == <<"A","B","C","D","E","F","G","H","I","J","K","L","M",
               "N","O","P","Q","R","S","T","U","V","W","X","Y","Z">>

UpperChar(c) ==
  IF \E i \in 1..Len(LowerCase) : LowerCase[i] = c
  THEN UpperCase[CHOOSE i \in 1..Len(LowerCase) : LowerCase[i] = c]
  ELSE c

Upper(s) == [i \in 1..Len(s) |-> UpperChar(s[i])]

DigitChars == <<"0","1","2","3","4","5","6","7","8","9">>

RECURSIVE Decimal(_)
Decimal(n) ==
  IF n < 10 THEN <<DigitChars[n + 1]>>
  ELSE Decimal(n \div 10) \o <<DigitChars[(n % 10) + 1]>>

RecordValue(i) == <<"r","e","c","o","r","d","_">> \o Decimal(i)

(***************************************************************************)
(* json.dump / json.load.  A file is a sequence of chunks: a character     *)
(* chunk [c |-> ch] or, inside the braces of a dumped object, one chunk    *)
(* [k |-> key, v |-> value] per member.                                    *)
(***************************************************************************)
Ch(c) == [c |-> c]

JSONDump(o) == <<Ch("{")>> \o o.obj \o <<Ch("}")>>

IsJSONObject(content) ==
  /\ Len(content) >= 2
  /\ content[1] = Ch("{")
  /\ content[Len(content)] = Ch("}")
  /\ \A i \in 2..(Len(content) - 1) : DOMAIN content[i] = {"k", "v"}

IsJSONNumber(content) ==
  /\ Len(content) = 1
  /\ \E d \in 1..Len(DigitChars) : content[1] = Ch(DigitChars[d])

IsJSON(content) == IsJSONObject(content) \/ IsJSONNumber(content)

JSONLoad(content) ==
  IF IsJSONObject(content)
  THEN JObj(SubSeq(content, 2, Len(content) - 1))
  ELSE JInt((CHOOSE d \in 1..Len(DigitChars) : content[1] = Ch(DigitChars[d])) - 1)

(***************************************************************************)
(* The filesystem: dirs is the set of directories (the working directory   *)
(* <<>> among them), files maps each regular file to its content, locked   *)
(* holds the directories without write permission and the files without    *)
(* any permission.  Each operation comes as the exception it raises        *)
(* ("none" when it succeeds) and the filesystem it leaves.                 *)
(***************************************************************************)
Dirname(p) == SubSeq(p, 1, Len(p) - 1)

Prefixes(d) == { SubSeq(d, 1, i) : i \in 1..Len(d) }

IsDir(f, p) == p \in f.dirs
IsFile(f, p) == p \in DOMAIN f.files

DeepestDir(f, d) ==
  CHOOSE a \in (Prefixes(d) \cup {<<>>}) :
    /\ IsDir(f, a)
    /\ \A b \in Prefixes(d) : IsDir(f, b) => Len(b) <= Len(a)

MakedirsExc(f, d) ==
  IF d = <<>> THEN "FileNotFoundError"
  ELSE IF \E q \in Prefixes(d) : q # d /\ IsFile(f, q) THEN "NotADirectoryError"
  ELSE IF IsFile(f, d) THEN "FileExistsError"
  ELSE IF IsDir(f, d) THEN "none"
  ELSE IF DeepestDir(f, d) \in f.locked THEN "PermissionError"
  ELSE "none"

Makedirs(f, d) == [f EXCEPT !.dirs = @ \cup Prefixes(d)]

OpenWriteExc(f, p) ==
  IF IsDir(f, p) THEN "IsADirectoryError"
  ELSE IF ~IsDir(f, Dirname(p)) THEN "FileNotFoundError"
  ELSE IF IsFile(f, p) /\ p \in f.locked THEN "PermissionError"
  ELSE IF ~IsFile(f, p) /\ Dirname(p) \in f.locked THEN "PermissionError"
  ELSE "none"

WriteFile(f, p, content) == [f EXCEPT !.files = (p :> content) @@ @]

OpenWrite(f, p) == WriteFile(f, p, <<>>)

OpenReadExc(f, p) ==
  IF IsDir(f, p) THEN "IsADirectoryError"
  ELSE IF ~IsFile(f, p) THEN "FileNotFoundError"
  ELSE IF p \in f.locked THEN "PermissionError"
  ELSE "none"

GetsizeExc(f, p) == IF IsFile(f, p) THEN "none" ELSE "FileNotFoundError"

Getsize(f, p) == Len(f.files[p])

(***************************************************************************)
(* Standard output: one record per printed line.                           *)
(***************************************************************************)
Line(kind, tag, body) == [kind |-> kind, tag |-> tag, body |-> body]

None == JLit("None")

ScriptName(s) ==
  CASE s = "load" -> "load_data.py"
    [] s = "process" -> "process_data.py"
    [] s = "analyze" -> "analyze_results.py"

ResultPrefix(s) ==
  CASE s = "load" -> "LOAD_RESULT"
    [] s = "process" -> "PROCESS_RESULT"
    [] s = "analyze" -> "ANALYZE_RESULT"

ErrorPrefix(s) ==
  CASE s = "load" -> "Error loading data"
    [] s = "process" -> "Error processing data"
    [] s = "analyze" -> "Error analyzing results"

input_file == argv[1]
output_file == argv[2]
now == JTime(clock)

(***************************************************************************)
(* load_data: the fabricated dataset                                       *)
(***************************************************************************)
(* Variant: ids counted from 0, as range(100) would.                       *)
SampleRecord_ZeroBased(i) ==
  JObj(<<Member("id", JInt(i - 1)),
         Member("value", JStr(RecordValue(i - 1))),
         Member("timestamp", now)>>)

SampleRecord(i) ==
  JObj(<<Member("id", JInt(i)),
         Member("value", JStr(RecordValue(i))),
         Member("timestamp", now)>>)

SampleData ==
  JObj(<<Member("source_file", JPath(input_file)),
         Member("loaded_at", now),
         Member("records_count", JInt(DeclaredCount)),
         Member("data", JList([i \in 1..SampleRecords |-> SampleRecord(i)])),
         Member("metadata",
                JObj(<<Member("file_size", JLit("2.5MB")),
                       Member("format", JLit("JSON")),
                       Member("encoding", JLit("UTF-8"))>>))>>)

LoadResult ==
  JObj(<<Member("status", JLit("success")),
         Member("records_loaded", Get(doc, "records_count")),
         Member("output_file", JPath(output_file)),
         Member("file_size", Get(Get(doc, "metadata"), "file_size"))>>)

(***************************************************************************)
(* process_data: the per-record loop.  Iterating a list yields its items,  *)
(* a dict its keys, a string its characters; an integer is not iterable.   *)
(* Subscripting anything but a dict with a string key is a TypeError, a    *)
(* missing key a KeyError, .upper() on a non-string an AttributeError.     *)
(***************************************************************************)
IterExc(v) == IF v.ty \in {"list", "obj", "str"} THEN "none" ELSE "TypeError"

Items(v) ==
  CASE v.ty = "list" -> v.list
    [] v.ty = "obj" -> [i \in 1..Len(v.obj) |-> JLit(v.obj[i].k)]
    [] v.ty = "str" -> [i \in 1..Len(v.str) |-> JStr(<<v.str[i]>>)]

SubscriptExc(v, k) ==
  IF v.ty # "obj" THEN "TypeError"
  ELSE IF ~HasKey(v, k) THEN "KeyError"
  ELSE "none"

RecordExc(record) ==
  IF SubscriptExc(record, "id") # "none" THEN SubscriptExc(record, "id")
  ELSE IF SubscriptExc(record, "value") # "none" THEN SubscriptExc(record, "value")
  ELSE IF Get(record, "value").ty # "str" THEN "AttributeError"
  ELSE SubscriptExc(record, "timestamp")

(* Variant: the value is copied without the upper-casing.                  *)
ProcessedRecord_NoUpper(record) ==
  JObj(<<Member("id", Get(record, "id")),
         Member("processed_value", Get(record, "value")),
         Member("processed_timestamp", now),
         Member("original_timestamp", Get(record, "timestamp")),
         Member("transformation_applied", JLit("uppercase_conversion"))>>)

ProcessedRecord(record) ==
  JObj(<<Member("id", Get(record, "id")),
         Member("processed_value", JStr(Upper(Get(record, "value").str))),
         Member("processed_timestamp", now),
         Member("original_timestamp", Get(record, "timestamp")),
         Member("transformation_applied", JLit("uppercase_conversion"))>>)

LoopExc(items) ==
  IF \A i \in 1..Len(items) : RecordExc(items[i]) = "none" THEN "none"
  ELSE RecordExc(items[CHOOSE i \in 1..Len(items) :
                         /\ RecordExc(items[i]) # "none"
                         /\ \A j \in 1..(i - 1) : RecordExc(items[j]) = "none"])

TransformExc(d) ==
  IF SubscriptExc(d, "data") # "none" THEN SubscriptExc(d, "data")
  ELSE IF IterExc(Get(d, "data")) # "none" THEN IterExc(Get(d, "data"))
  ELSE LoopExc(Items(Get(d, "data")))

Transform(d) ==
  LET items == Items(Get(d, "data"))
  IN  [i \in 1..Len(items) |-> ProcessedRecord(items[i])]

Transformations ==
  JList(<<JLit("uppercase_conversion"), JLit("timestamp_normalization")>>)

ProcessedData ==
  JObj(<<Member("source_file", JPath(input_file)),
         Member("processed_at", now),
         Member("original_records_count", Get(data, "records_count")),
         Member("processed_records_count", JInt(Len(records))),
         Member("transformations", Transformations),
         Member("data", JList(records)),
         Member("metadata",
                JObj(<<Member("processing_time_ms", JLit("150")),
                       Member("memory_used_mb", JLit("25.5")),
                       Member("transformations_count", JLit("2"))>>))>>)

ProcessResult ==
  JObj(<<Member("status", JLit("success")),
         Member("records_processed", JInt(Len(records))),
         Member("output_file", JPath(output_file)),
         Member("processing_time_ms",
                Get(Get(doc, "metadata"), "processing_time_ms")),
         Member("transformations_applied", Get(doc, "transformations"))>>)

(***************************************************************************)
(* analyze_results: the report                                             *)
(***************************************************************************)
Recommendations ==
  JList(<<JLit("Data processing completed successfully"),
          JLit("All transformations applied correctly"),
          JLit("Performance is within acceptable limits"),
          JLit("Consider implementing parallel processing for larger datasets")>>)

AnalysisResults ==
  JObj(<<Member("analysis_timestamp", now),
         Member("report_file", JPath(input_file)),
         Member("report_size_bytes", JInt(size)),
         Member("report_size_kb", [ty |-> "kb", of |-> size]),
         Member("analysis_metrics",
                JObj(<<Member("processing_efficiency", JLit("95.5")),
                       Member("data_quality_score", JLit("98.2")),
                       Member("transformation_success_rate", JLit("100.0")),
                       Member("performance_score", JLit("92.8"))>>)),
         Member("recommendations", Recommendations),
         Member("quality_checks",
                JObj(<<Member("data_integrity", JLit("PASSED")),
                       Member("format_validation", JLit("PASSED")),
                       Member("completeness_check", JLit("PASSED")),
                       Member("consistency_check", JLit("PASSED"))>>)),
         Member("summary",
                JObj(<<Member("total_tasks_completed", JLit("4")),
                       Member("successful_tasks", JLit("4")),
                       Member("failed_tasks", JLit("0")),
                       Member("overall_status", JLit("SUCCESS")),
                       Member("processing_time_total", JLit("2.5 minutes")),
                       Member("data_volume_processed", JLit("2.5MB"))>>))>>)

AnalyzeResult ==
  JObj(<<Member("status", JLit("success")),
         Member("analysis_file", JPath(output_file)),
         Member("overall_status", Get(Get(doc, "summary"), "overall_status")),
         Member("quality_score",
                Get(Get(doc, "analysis_metrics"), "data_quality_score")),
         Member("recommendations_count",
                JInt(Len(Get(doc, "recommendations").list)))>>)

(***************************************************************************)
(* The environment: the files the stages may be pointed at and the         *)
(* argument vectors a caller may pass.                                     *)
(***************************************************************************)
InputFile == <<"in", "data.json">>      \* content drawn at Init
SecretFile == <<"in", "secret.json">>   \* exists, mode 000
OldFile == <<"tmp", "old.json">>        \* exists, text; input and output

InPaths == { InputFile, SecretFile, OldFile, <<"missing.json">> }

OutPaths ==
  { <<"out.json">>,                       \* no directory component
    OldFile,                              \* directory and file exist
    <<"tmp", "new", "deep", "o.json">>,   \* two directories to create
    <<"ro", "o.json">>,                   \* directory not writable
    <<"ro", "new", "o.json">>,            \* directory cannot be created
    <<"in", "data.json", "o.json">> }     \* a file where a directory is needed

BadArgvs ==
  { <<>>, <<InputFile>>, <<InputFile, OldFile, <<"extra">>>> }

Argvs == BadArgvs \cup { <<i, o>> : i \in InPaths, o \in OutPaths }

IdSet == {1, 2}
ValueSet == { <<"a", "B">>, <<"x", "_", "9">> }

InputRecord(id, v) ==
  JObj(<<Member("id", JInt(id)), Member("value", JStr(v)),
         Member("timestamp", JTime(0))>>)

LoadedDataset(count, recs) ==
  JObj(<<Member("source_file", JPath(<<"src.csv">>)),
         Member("loaded_at", JTime(0)),
         Member("records_count", JInt(count)),
         Member("data", JList(recs)),
         Member("metadata", JObj(<<Member("format", JLit("JSON"))>>))>>)

InputRecords == { InputRecord(id, v) : id \in IdSet, v \in ValueSet }

RecordLists == UNION { [1..n -> InputRecords] : n \in 0..MaxRecords }

WellFormedInputs ==
  { JSONDump(LoadedDataset(c, recs)) : c \in {1, DeclaredCount}, recs \in RecordLists }

Drop(o, k) == JObj(SelectSeq(o.obj, LAMBDA m : m.k # k))

Put(o, k, v) == JObj([i \in 1..Len(o.obj) |->
                       IF o.obj[i].k = k THEN Member(k, v) ELSE o.obj[i]])

GoodRecord == InputRecord(1, <<"a", "B">>)
GoodDoc == LoadedDataset(1, <<GoodRecord>>)
DocWith(rec) == LoadedDataset(2, <<GoodRecord, rec>>)

MalformedInputs ==
  { <<>>,                                             \* empty file
    <<Ch("h"), Ch("i")>>,                             \* text
    <<Ch("{"), Member("data", JList(<<>>))>>,         \* truncated document
    <<Ch("7")>>,                                      \* JSON, not an object
    JSONDump(Drop(GoodDoc, "data")),
    JSONDump(Drop(GoodDoc, "records_count")),
    JSONDump(DocWith(Drop(GoodRecord, "id"))),
    JSONDump(DocWith(Drop(GoodRecord, "value"))),
    JSONDump(DocWith(Drop(GoodRecord, "timestamp"))),
    JSONDump(DocWith(JObj(<<Member("id", JInt(2)), Member("value", JInt(5)),
                            Member("timestamp", JTime(0))>>))),
    JSONDump(DocWith(JInt(3))),
    JSONDump(Put(GoodDoc, "data", JInt(4))) }

SampleInputs ==
  MalformedInputs \cup { JSONDump(GoodDoc), JSONDump(LoadedDataset(DeclaredCount, <<>>)) }

InitialFS(content) ==
  [dirs |-> { <<>>, <<"in">>, <<"tmp">>, <<"ro">> },
   files |-> (InputFile :> content)
             @@ (SecretFile :> JSONDump(GoodDoc))
             @@ (OldFile :> <<Ch("o"), Ch("l"), Ch("d")>>),
   locked |-> { <<"ro">>, SecretFile }]

NoPipe ==
  [on |-> FALSE, dir |-> <<>>, label |-> <<>>, prior |-> "", spawned |-> 0,
   codes |-> <<>>]

InitWith(contents) ==
  /\ \E content \in contents : fs = InitialFS(content)
  /\ fs0 = fs
  /\ clock = 0
  /\ stage = "none"
  /\ argv = <<>>
  /\ pc = "idle"
  /\ data = None
  /\ records = <<>>
  /\ size = 0
  /\ doc = None
  /\ result = None
  /\ exc = "none"
  /\ stdout = <<>>
  /\ exitCode = -1
  /\ reads = {}
  /\ plan = <<>>
  /\ pipe = NoPipe

Init == InitWith(SampleInputs)

(***************************************************************************)
(* The caller: spawns a stage as a new process.                            *)
(***************************************************************************)
Spawn(s, args) ==
  /\ stage' = s
  /\ argv' = args
  /\ pc' = "main"
  /\ clock' = clock + 1
  /\ fs0' = fs
  /\ data' = None
  /\ records' = <<>>
  /\ size' = 0
  /\ doc' = None
  /\ result' = None
  /\ exc' = "none"
  /\ stdout' = <<>>
  /\ exitCode' = -1
  /\ reads' = {}
  /\ UNCHANGED fs

Invoke ==
  /\ pc \in {"idle", "done"}
  /\ ~pipe.on
  /\ clock < MaxRuns
  /\ \E s \in Stages, args \in Argvs : Spawn(s, args)
  /\ UNCHANGED <<plan, pipe>>

(* The pipeline caller: Loader, then Transformer on the Loader's output,   *)
(* then Analyzer on one of the two artifacts, all outputs in one shared    *)
(* directory; it waits for each process and stops at the first failure.    *)
SharedDirs == { <<>>, <<"tmp">> }
Artifacts == { "loaded.json", "processed.json" }
PipelineStages == <<"load", "process", "analyze">>

PipelineArgv(s) ==
  CASE s = "load" -> <<pipe.label, pipe.dir \o <<"loaded.json">>>>
    [] s = "process" -> <<pipe.dir \o <<"loaded.json">>,
                          pipe.dir \o <<"processed.json">>>>
    [] s = "analyze" -> <<pipe.dir \o <<pipe.prior>>,
                          pipe.dir \o <<"analysis.json">>>>

StartPipeline ==
  /\ pc = "idle"
  /\ ~pipe.on
  /\ \E d \in SharedDirs, l \in InPaths, a \in Artifacts :
       pipe' = [on |-> TRUE, dir |-> d, label |-> l, prior |-> a,
                spawned |-> 0, codes |-> <<>>]
  /\ plan' = PipelineStages
  /\ UNCHANGED <<fs, fs0, clock, stage, argv, pc, data, records, size, doc,
                 result, exc, stdout, exitCode, reads>>

PipelineSpawn ==
  /\ pipe.on
  /\ plan # <<>>
  /\ pc \in {"idle", "done"}
  /\ Len(pipe.codes) = pipe.spawned
  /\ Spawn(Head(plan), PipelineArgv(Head(plan)))
  /\ plan' = Tail(plan)
  /\ pipe' = [pipe EXCEPT !.spawned = @ + 1]

PipelineWait ==
  /\ pipe.on
  /\ pc = "done"
  /\ Len(pipe.codes) < pipe.spawned
  /\ pipe' = [pipe EXCEPT !.codes = Append(@, exitCode)]
  /\ plan' = IF exitCode = 0 THEN plan ELSE <<>>
  /\ UNCHANGED <<fs, fs0, clock, stage, argv, pc, data, records, size, doc,
                 result, exc, stdout, exitCode, reads>>

(***************************************************************************)
(* The stage process                                                       *)
(***************************************************************************)
Emit(line) == stdout' = Append(stdout, line)

Raise(e) == pc' = "except" /\ exc' = e

FirstStep(s) ==
  CASE s = "load" -> "load_build"
    [] s = "process" -> "proc_read"
    [] s = "analyze" -> "an_getsize"

(* Variant: the usage failure exits with 2, as argparse would.             *)
UsageExit_Code2 ==
  /\ pc = "main"
  /\ Len(argv) # ArgCount
  /\ Emit(Line("usage", ScriptName(stage), None))
  /\ exitCode' = 2
  /\ pc' = "done"
  /\ UNCHANGED <<fs, fs0, clock, stage, argv, data, records, size, doc, result,
                 exc, reads, plan, pipe>>

UsageExit ==
  /\ pc = "main"
  /\ Len(argv) # ArgCount
  /\ Emit(Line("usage", ScriptName(stage), None))
  /\ exitCode' = 1
  /\ pc' = "done"
  /\ UNCHANGED <<fs, fs0, clock, stage, argv, data, records, size, doc, result,
                 exc, reads, plan, pipe>>

EnterStage ==
  /\ pc = "main"
  /\ Len(argv) = ArgCount
  /\ pc' = FirstStep(stage)
  /\ UNCHANGED <<fs, fs0, clock, stage, argv, data, records, size, doc, result,
                 exc, stdout, exitCode, reads, plan, pipe>>

LoadBuild ==
  /\ pc = "load_build"
  /\ Emit(Line("progress", "Loading data from", JPath(input_file)))
  /\ doc' = SampleData
  /\ pc' = "makedirs"
  /\ UNCHANGED <<fs, fs0, clock, stage, argv, data, records, size, result,
                 exc, exitCode, reads, plan, pipe>>

(* Variant: a document that does not parse is taken for an empty dataset.  *)
ProcRead_DefaultOnBadJSON ==
  /\ pc = "proc_read"
  /\ Emit(Line("progress", "Processing data from", JPath(input_file)))
  /\ IF OpenReadExc(fs, input_file) # "none"
     THEN /\ Raise(OpenReadExc(fs, input_file))
          /\ UNCHANGED <<data, reads>>
     ELSE /\ reads' = reads \cup {[path |-> input_file, how |-> "content"]}
          /\ data' = IF IsJSON(fs.files[input_file])
                     THEN JSONLoad(fs.files[input_file])
                     ELSE JObj(<<Member("records_count", JInt(0)),
                                 Member("data", JList(<<>>))>>)
          /\ pc' = "proc_transform"
          /\ UNCHANGED exc
  /\ UNCHANGED <<fs, fs0, clock, stage, argv, records, size, doc, result,
                 exitCode, plan, pipe>>

ProcRead ==
  /\ pc = "proc_read"
  /\ Emit(Line("progress", "Processing data from", JPath(input_file)))
  /\ IF OpenReadExc(fs, input_file) # "none"
     THEN /\ Raise(OpenReadExc(fs, input_file))
          /\ UNCHANGED <<data, reads>>
     ELSE /\ reads' = reads \cup {[path |-> input_file, how |-> "content"]}
          /\ IF IsJSON(fs.files[input_file])
             THEN /\ data' = JSONLoad(fs.files[input_file])
                  /\ pc' = "proc_transform"
                  /\ UNCHANGED exc
             ELSE /\ Raise("JSONDecodeError")
                  /\ UNCHANGED data
  /\ UNCHANGED <<fs, fs0, clock, stage, argv, records, size, doc, result,
                 exitCode, plan, pipe>>

ProcTransform ==
  /\ pc = "proc_transform"
  /\ IF TransformExc(data) # "none"
     THEN /\ Raise(TransformExc(data))
          /\ UNCHANGED records
     ELSE /\ records' = Transform(data)
          /\ pc' = "proc_build"
          /\ UNCHANGED exc
  /\ UNCHANGED <<fs, fs0, clock, stage, argv, data, size, doc, result,
                 stdout, exitCode, reads, plan, pipe>>

(* Variant: a missing records_count defaults to 0, as dict.get would.      *)
ProcBuild_DefaultCount ==
  /\ pc = "proc_build"
  /\ doc' = IF HasKey(data, "records_count") THEN ProcessedData
            ELSE JObj(<<Member("source_file", JPath(input_file)),
                        Member("original_records_count", JInt(0)),
                        Member("data", JList(records))>>)
  /\ pc' = "makedirs"
  /\ UNCHANGED <<fs, fs0, clock, stage, argv, data, records, size, result,
                 exc, stdout, exitCode, reads, plan, pipe>>

ProcBuild ==
  /\ pc = "proc_build"
  /\ IF SubscriptExc(data, "records_count") # "none"
     THEN /\ Raise(SubscriptExc(data, "records_count"))
          /\ UNCHANGED doc
     ELSE /\ doc' = ProcessedData
          /\ pc' = "makedirs"
          /\ UNCHANGED exc
  /\ UNCHANGED <<fs, fs0, clock, stage, argv, data, records, size, result,
                 stdout, exitCode, reads, plan, pipe>>

(* Variant: the input is opened and parsed before it is measured.          *)
AnGetsize_Parses ==
  /\ pc = "an_getsize"
  /\ Emit(Line("progress", "Analyzing results from", JPath(input_file)))
  /\ IF OpenReadExc(fs, input_file) # "none"
     THEN /\ Raise(OpenReadExc(fs, input_file))
          /\ UNCHANGED <<size, reads>>
     ELSE /\ reads' = reads \cup {[path |-> input_file, how |-> "content"]}
          /\ IF IsJSON(fs.files[input_file])
             THEN /\ size' = Getsize(fs, input_file)
                  /\ pc' = "an_build"
                  /\ UNCHANGED exc
             ELSE /\ Raise("JSONDecodeError")
                  /\ UNCHANGED size
  /\ UNCHANGED <<fs, fs0, clock, stage, argv, data, records, doc, result,
                 exitCode, plan, pipe>>

AnGetsize ==
  /\ pc = "an_getsize"
  /\ Emit(Line("progress", "Analyzing results from", JPath(input_file)))
  /\ IF GetsizeExc(fs, input_file) # "none"
     THEN /\ Raise(GetsizeExc(fs, input_file))
          /\ UNCHANGED <<size, reads>>
     ELSE /\ size' = Getsize(fs, input_file)
          /\ reads' = reads \cup {[path |-> input_file, how |-> "stat"]}
          /\ pc' = "an_build"
          /\ UNCHANGED exc
  /\ UNCHANGED <<fs, fs0, clock, stage, argv, data, records, doc, result,
                 exitCode, plan, pipe>>

AnBuild ==
  /\ pc = "an_build"
  /\ doc' = AnalysisResults
  /\ pc' = "makedirs"
  /\ UNCHANGED <<fs, fs0, clock, stage, argv, data, records, size, result,
                 exc, stdout, exitCode, reads, plan, pipe>>

(* The save, the status lines and the __main__ epilogue are the same       *)
(* statements in the three scripts.                                        *)
MakeDirs ==
  /\ pc = "makedirs"
  /\ IF MakedirsExc(fs, Dirname(output_file)) # "none"
     THEN /\ Raise(MakedirsExc(fs, Dirname(output_file)))
          /\ UNCHANGED fs
     ELSE /\ fs' = Makedirs(fs, Dirname(output_file))
          /\ pc' = "open"
          /\ UNCHANGED exc
  /\ UNCHANGED <<fs0, clock, stage, argv, data, records, size, doc, result,
                 stdout, exitCode, reads, plan, pipe>>

OpenOutput ==
  /\ pc = "open"
  /\ IF OpenWriteExc(fs, output_file) # "none"
     THEN /\ Raise(OpenWriteExc(fs, output_file))
          /\ UNCHANGED fs
     ELSE /\ fs' = OpenWrite(fs, output_file)
          /\ pc' = "dump"
          /\ UNCHANGED exc
  /\ UNCHANGED <<fs0, clock, stage, argv, data, records, size, doc, result,
                 stdout, exitCode, reads, plan, pipe>>

(* Variant: the document is cut short, the closing brace never written.    *)
DumpOutput_Partial ==
  /\ pc = "dump"
  /\ fs' = WriteFile(fs, output_file, <<Ch("{")>> \o doc.obj)
  /\ pc' = "status"
  /\ UNCHANGED <<fs0, clock, stage, argv, data, records, size, doc, result,
                 exc, stdout, exitCode, reads, plan, pipe>>

DumpOutput ==
  /\ pc = "dump"
  /\ fs' = WriteFile(fs, output_file, JSONDump(doc))
  /\ pc' = "status"
  /\ UNCHANGED <<fs0, clock, stage, argv, data, records, size, doc, result,
                 exc, stdout, exitCode, reads, plan, pipe>>

StatusLines(s) ==
  CASE s = "load" ->
         <<Line("progress", "Data loaded successfully. Records",
                Get(doc, "records_count")),
           Line("progress", "Output saved to", JPath(output_file))>>
    [] s = "process" ->
         <<Line("progress", "Data processed successfully. Records",
                JInt(Len(records))),
           Line("progress", "Output saved to", JPath(output_file))>>
    [] s = "analyze" ->
         <<Line("progress", "Analysis completed successfully", None),
           Line("progress", "Output saved to", JPath(output_file)),
           Line("progress", "Overall Status",
                Get(Get(doc, "summary"), "overall_status"))>>

StageResult(s) ==
  CASE s = "load" -> LoadResult
    [] s = "process" -> ProcessResult
    [] s = "analyze" -> AnalyzeResult

PrintStatus ==
  /\ pc = "status"
  /\ stdout' = stdout \o StatusLines(stage)
  /\ result' = StageResult(stage)
  /\ pc' = "print_result"
  /\ UNCHANGED <<fs, fs0, clock, stage, argv, data, records, size, doc,
                 exc, exitCode, reads, plan, pipe>>

PrintResult ==
  /\ pc = "print_result"
  /\ Emit(Line("result", ResultPrefix(stage), result))
  /\ pc' = "exit0"
  /\ UNCHANGED <<fs, fs0, clock, stage, argv, data, records, size, doc, result,
                 exc, exitCode, reads, plan, pipe>>

Exit0 ==
  /\ pc = "exit0"
  /\ exitCode' = 0
  /\ pc' = "done"
  /\ UNCHANGED <<fs, fs0, clock, stage, argv, data, records, size, doc, result,
                 exc, stdout, reads, plan, pipe>>

(* Variant: the handler exits without printing the error line.             *)
HandleException_Silent ==
  /\ pc = "except"
  /\ exitCode' = 1
  /\ pc' = "done"
  /\ UNCHANGED <<fs, fs0, clock, stage, argv, data, records, size, doc, result,
                 exc, stdout, reads, plan, pipe>>

HandleException ==
  /\ pc = "except"
  /\ Emit(Line("error", ErrorPrefix(stage), JLit(exc)))
  /\ exitCode' = 1
  /\ pc' = "done"
  /\ UNCHANGED <<fs, fs0, clock, stage, argv, data, records, size, doc, result,
                 exc, reads, plan, pipe>>

StageStep ==
  \/ UsageExit \/ EnterStage
  \/ LoadBuild
  \/ ProcRead \/ ProcTransform \/ ProcBuild
  \/ AnGetsize \/ AnBuild
  \/ MakeDirs \/ OpenOutput \/ DumpOutput
  \/ PrintStatus \/ PrintResult \/ Exit0 \/ HandleException

Caller == Invoke \/ StartPipeline \/ PipelineSpawn \/ PipelineWait

Next == Caller \/ StageStep

Spec == Init /\ [][Next]_vars

(***************************************************************************)
(* The Transformer alone, run once on every well-formed dataset of up to   *)
(* MaxRecords records.                                                     *)
(***************************************************************************)
InitTransform == InitWith(WellFormedInputs)

InvokeTransformer ==
  /\ pc = "idle"
  /\ \E args \in Argvs : Spawn("process", args)
  /\ UNCHANGED <<plan, pipe>>

NextTransform ==
  \/ InvokeTransformer
  \/ UsageExit \/ EnterStage
  \/ ProcRead \/ ProcTransform \/ ProcBuild
  \/ MakeDirs \/ OpenOutput \/ DumpOutput
  \/ PrintStatus \/ PrintResult \/ Exit0 \/ HandleException

SpecTransform == InitTransform /\ [][NextTransform]_vars

(***************************************************************************)
(* Properties                                                              *)
(***************************************************************************)
Running == pc \notin {"idle", "done"}
Exited == pc = "done"
TwoArgs == Len(argv) = ArgCount

LinesOf(kind) == SelectSeq(stdout, LAMBDA l : l.kind = kind)
LastLine == stdout[Len(stdout)]

ScriptOrder ==
  { "main", "load_build", "proc_read", "proc_transform", "proc_build",
    "an_getsize", "an_build", "makedirs", "open", "dump", "status",
    "print_result", "exit0", "except", "done" }

Rank(l) ==
  CASE l = "main" -> 0
    [] l \in {"load_build", "proc_read", "an_getsize"} -> 1
    [] l = "proc_transform" -> 2
    [] l \in {"proc_build", "an_build"} -> 3
    [] l = "makedirs" -> 4
    [] l = "open" -> 5
    [] l = "dump" -> 6
    [] l = "status" -> 7
    [] l = "print_result" -> 8
    [] l = "exit0" -> 9
    [] l = "except" -> 10
    [] l = "done" -> 11

ResultIsLast ==
  /\ Len(LinesOf("result")) = 1
  /\ LastLine.kind = "result"
  /\ LastLine.tag = ResultPrefix(stage)

\* C1: every stage process ends with exit code 0 or 1 and no other; it has
\* exit code 0 exactly when it printed exactly one result line, carrying the
\* prefix of its own stage, as the last line of its output; after a failure
\* that is not a usage failure it has printed exactly one "Error ..." line
\* and no result line and its exit code is 1.  Every step of a running
\* process moves it forward in its script, so it ends after at most one pass.
C1_ExitCodes ==
  /\ exitCode \in {-1, 0, 1}
  /\ Exited => exitCode \in {0, 1}
  /\ Exited => (exitCode = 0 <=> ResultIsLast)
  /\ (Exited /\ exitCode = 1 /\ TwoArgs) =>
        /\ Len(LinesOf("error")) = 1
        /\ LastLine.kind = "error"
        /\ LastLine.tag = ErrorPrefix(stage)
        /\ Len(LinesOf("result")) = 0

C1_Forward == Running => /\ pc \in ScriptOrder
                         /\ Rank(pc') > Rank(pc)

C1_ExitProtocol == [](C1_ExitCodes) /\ [][C1_Forward]_vars

C1_Witness ==
  /\ Exited /\ stage = "process" /\ TwoArgs
  /\ exitCode = 1
  /\ exc = "JSONDecodeError"

(* The document shapes of the three stages: the keys of the top-level      *)
(* object and of each record of `data`.                                    *)
Keys(o) == [i \in 1..Len(o.obj) |-> o.obj[i].k]

TopKeys(s) ==
  CASE s = "load" ->
         <<"source_file", "loaded_at", "records_count", "data", "metadata">>
    [] s = "process" ->
         <<"source_file", "processed_at", "original_records_count",
           "processed_records_count", "transformations", "data", "metadata">>
    [] s = "analyze" ->
         <<"analysis_timestamp", "report_file", "report_size_bytes",
           "report_size_kb", "analysis_metrics", "recommendations",
           "quality_checks", "summary">>

RecordKeys(s) ==
  CASE s = "load" -> <<"id", "value", "timestamp">>
    [] s = "process" ->
         <<"id", "processed_value", "processed_timestamp",
           "original_timestamp", "transformation_applied">>
    [] s = "analyze" -> <<>>

HasShape(s, o) ==
  /\ o.ty = "obj"
  /\ Keys(o) = TopKeys(s)
  /\ s \in {"load", "process"} =>
        /\ Get(o, "data").ty = "list"
        /\ \A i \in 1..Len(Get(o, "data").list) :
              /\ Get(o, "data").list[i].ty = "obj"
              /\ Keys(Get(o, "data").list[i]) = RecordKeys(s)

OutputComplete ==
  /\ TwoArgs
  /\ IsFile(fs, output_file)
  /\ IsJSONObject(fs.files[output_file])
  /\ HasShape(stage, JSONLoad(fs.files[output_file]))

C2_WrittenBeforeResult ==
  (Len(LinesOf("result")) > 0 \/ exitCode = 0) => OutputComplete

C2_NoRetry ==
  pc = "except" =>
     /\ pc' = "done"
     /\ exitCode' = 1
     /\ stdout' = Append(stdout, Line("error", ErrorPrefix(stage), JLit(exc)))

\* C2: whenever a stage has printed its result line or has exit code 0, its
\* output file exists and holds the complete JSON document of the stage's
\* shape; and the step after an exception is raised prints the error line
\* and exits 1 (no retry, no other step in between).
C2_OrderOfSteps == [](C2_WrittenBeforeResult) /\ [][C2_NoRetry]_vars

C2_Witness ==
  /\ Exited /\ stage = "process" /\ exitCode = 0
  /\ OutputComplete
  /\ Len(Get(JSONLoad(fs.files[output_file]), "data").list) > 0

\* C3: a stage spawned with any number of arguments other than two prints
\* the usage line and nothing else, exits 1, and never leaves the argument
\* check: the filesystem stays as it was and no path is read or stat'ed.
C3_UsageError ==
  (stage \in Stages /\ ~TwoArgs) =>
     /\ pc \in {"main", "done"}
     /\ fs = fs0
     /\ reads = {}
     /\ exitCode \in {-1, 1}
     /\ Exited => /\ exitCode = 1
                  /\ stdout = <<Line("usage", ScriptName(stage), None)>>

C3_Witness ==
  /\ Exited /\ stage = "analyze"
  /\ Len(argv) = 3
  /\ exitCode = 1

(* What is at a path: a file with its content, a directory, or nothing.    *)
FileState(f, p) ==
  IF IsFile(f, p) THEN <<"file", f.files[p]>>
  ELSE IF IsDir(f, p) THEN <<"dir">>
  ELSE <<"absent">>

NonJSONInput ==
  /\ stage = "process" /\ TwoArgs
  /\ IsFile(fs0, input_file)
  /\ ~IsJSON(fs0.files[input_file])

\* C4: a Transformer whose input file does not hold valid JSON never has
\* exit code 0, ends with exit code 1, and at every moment of the run the
\* output path holds what it held when the process was spawned: nothing if
\* there was nothing, the same content if there was a file.
C4_NonJSONInput ==
  NonJSONInput =>
     /\ FileState(fs, output_file) = FileState(fs0, output_file)
     /\ exitCode \in {-1, 1}
     /\ Exited => exitCode = 1

C4_Witness ==
  /\ NonJSONInput /\ Exited
  /\ exitCode = 1
  /\ output_file = OldFile
  /\ fs.files[OldFile] = <<Ch("o"), Ch("l"), Ch("d")>>

InputData == Get(JSONLoad(fs0.files[input_file]), "data").list
OutputDoc == JSONLoad(fs.files[output_file])

\* C5: after a successful Transformer run the output's `data` has one record
\* per input record, in the same order, the k-th with the id of the k-th
\* input record and processed_value the upper-cased value of that record;
\* processed_records_count and the records_processed of the PROCESS_RESULT
\* line are the number of input records, whatever records_count declares.
C5_Transform ==
  (stage = "process" /\ Exited /\ exitCode = 0) =>
     /\ Len(Get(OutputDoc, "data").list) = Len(InputData)
     /\ \A k \in 1..Len(InputData) :
           /\ Get(Get(OutputDoc, "data").list[k], "id") = Get(InputData[k], "id")
           /\ Get(Get(OutputDoc, "data").list[k], "processed_value")
                = JStr(Upper(Get(InputData[k], "value").str))
     /\ Get(OutputDoc, "processed_records_count") = JInt(Len(InputData))
     /\ LastLine.tag = "PROCESS_RESULT"
     /\ Get(LastLine.body, "records_processed") = JInt(Len(InputData))

C5_Witness ==
  /\ stage = "process" /\ Exited /\ exitCode = 0
  /\ Len(InputData) = 2
  /\ Get(JSONLoad(fs0.files[input_file]), "records_count") = JInt(DeclaredCount)
  /\ Get(InputData[1], "value") = JStr(<<"a", "B">>)
  /\ Get(InputData[2], "id") = JInt(2)
  /\ Get(Get(OutputDoc, "data").list[1], "processed_value") = JStr(<<"A", "B">>)
  /\ Get(Get(OutputDoc, "data").list[2], "id") = JInt(2)
  /\ Get(OutputDoc, "processed_records_count") = JInt(2)

\* C6: the Loader never reads or stats any path, and after a successful run
\* the output's `data` has exactly 100 records, the i-th with id i and value
\* "record_<i>": the same list for every input path, existing or not.
C6_LoaderRecords ==
  stage = "load" =>
     /\ reads = {}
     /\ (Exited /\ exitCode = 0) =>
           /\ Len(Get(OutputDoc, "data").list) = SampleRecords
           /\ \A i \in 1..SampleRecords :
                 /\ Get(Get(OutputDoc, "data").list[i], "id") = JInt(i)
                 /\ Get(Get(OutputDoc, "data").list[i], "value")
                      = JStr(<<"r","e","c","o","r","d","_">> \o Decimal(i))

C6_Witness ==
  /\ stage = "load" /\ Exited /\ exitCode = 0
  /\ input_file = <<"missing.json">>
  /\ ~IsFile(fs, input_file)
  /\ Len(Get(OutputDoc, "data").list) = 100
  /\ Get(Get(OutputDoc, "data").list[100], "value")
       = JStr(<<"r","e","c","o","r","d","_","1","0","0">>)

(* The exception of the save (makedirs, then open for writing), if any.    *)
SaveExc(f, p) ==
  IF MakedirsExc(f, Dirname(p)) # "none" THEN MakedirsExc(f, Dirname(p))
  ELSE OpenWriteExc(Makedirs(f, Dirname(p)), p)

\* C7: when the Analyzer's input file exists, the Analyzer only stats it,
\* a successful run reports as report_size_bytes the length the input had
\* when the process was spawned (0 for an empty file, and whether or not
\* the content is JSON), and the only exception it can run into is the one
\* of saving to the output path.
C7_ReportSize ==
  (stage = "analyze" /\ TwoArgs /\ IsFile(fs0, input_file)) =>
     /\ \A r \in reads : r.how = "stat"
     /\ exc # "none" => exc = SaveExc(fs0, output_file)
     /\ (Exited /\ exitCode = 0) =>
           Get(OutputDoc, "report_size_bytes") = JInt(Len(fs0.files[input_file]))

C7_Witness ==
  /\ stage = "analyze" /\ Exited /\ exitCode = 0
  /\ fs0.files[input_file] = <<>>
  /\ Get(OutputDoc, "report_size_bytes") = JInt(0)

(* An output path can be created and written when it is no directory, no   *)
(* file stands where one of its directories is needed, and the file, or    *)
(* when it does not exist the deepest existing directory above it, is      *)
(* writable.                                                               *)
CanCreate(f, p) ==
  /\ ~IsDir(f, p)
  /\ \A q \in Prefixes(p) : q # p => ~IsFile(f, q)
  /\ IF IsFile(f, p) THEN p \notin f.locked
     ELSE DeepestDir(f, Dirname(p)) \notin f.locked

InputUsable ==
  CASE stage = "load" -> TRUE
    [] stage = "analyze" -> IsFile(fs0, input_file)
    [] stage = "process" ->
         /\ OpenReadExc(fs0, input_file) = "none"
         /\ IsJSON(fs0.files[input_file])
         /\ TransformExc(JSONLoad(fs0.files[input_file])) = "none"
         /\ SubscriptExc(JSONLoad(fs0.files[input_file]), "records_count") = "none"

\* C8: a stage given two arguments and a usable input ends with exit code 0,
\* the parent directories of the output path created and the output file
\* written, whenever the output path can be created and written, a path
\* without directory component included; it ends with exit code 1 only when
\* the output path cannot be created or written.
C8_CreatesAndWrites ==
  (stage \in Stages /\ TwoArgs /\ Exited /\ InputUsable) =>
     IF CanCreate(fs0, output_file)
     THEN /\ exitCode = 0
          /\ OutputComplete
          /\ Prefixes(Dirname(output_file)) \subseteq fs.dirs
     ELSE exitCode = 1

PipelineFiles ==
  { pipe.dir \o <<n>> : n \in {"loaded.json", "processed.json", "analysis.json"} }

\* C9: when the caller runs Loader, Transformer on the Loader's output and
\* Analyzer on a prior artifact, one after the other, with the three output
\* paths in one shared writable directory, every stage exits 0, and at the
\* end the three files exist and the Analyzer's last line is an
\* ANALYZE_RESULT line whose status is "success".
C9_PipelineSucceeds ==
  pipe.on =>
     /\ \A i \in 1..Len(pipe.codes) : pipe.codes[i] = 0
     /\ (plan = <<>> /\ Len(pipe.codes) = pipe.spawned) =>
           /\ Len(pipe.codes) = Len(PipelineStages)
           /\ \A p \in PipelineFiles : IsFile(fs, p)
           /\ LastLine.kind = "result"
           /\ LastLine.tag = "ANALYZE_RESULT"
           /\ Get(LastLine.body, "status") = JLit("success")

InputMissing == ~IsFile(fs0, input_file) /\ ~IsDir(fs0, input_file)
InputUnreadable == IsFile(fs0, input_file) /\ input_file \in fs0.locked

RecordLacksKey(r) ==
  r.ty = "obj" /\ \E k \in {"id", "value", "timestamp"} : ~HasKey(r, k)

InputLacksKey ==
  /\ OpenReadExc(fs0, input_file) = "none"
  /\ IsJSONObject(fs0.files[input_file])
  /\ LET d == JSONLoad(fs0.files[input_file])
     IN  \/ ~HasKey(d, "data")
         \/ ~HasKey(d, "records_count")
         \/ /\ Get(d, "data").ty = "list"
            /\ \E i \in 1..Len(Get(d, "data").list) :
                  RecordLacksKey(Get(d, "data").list[i])

Untouched ==
  /\ fs = fs0
  /\ exitCode \in {-1, 1}
  /\ Exited => exitCode = 1

\* C10 as stated: a Transformer or Analyzer whose input file is missing or
\* unreadable, and a Transformer whose input is valid JSON lacking `data`,
\* `records_count` or a record's `id`, `value` or `timestamp`, exits 1 and
\* leaves the filesystem exactly as it was.
C10_EarlyFailure ==
  ( /\ stage \in {"process", "analyze"} /\ TwoArgs
    /\ \/ InputMissing
       \/ InputUnreadable
       \/ stage = "process" /\ InputLacksKey ) => Untouched

\* C10 amended: the same, except that an input file without read permission
\* is a failure for the Transformer only; the Analyzer stats its input and
\* never opens it.
C10_EarlyFailureAmended ==
  ( /\ stage \in {"process", "analyze"} /\ TwoArgs
    /\ \/ InputMissing
       \/ stage = "process" /\ InputUnreadable
       \/ stage = "process" /\ InputLacksKey ) => Untouched

C10_Witness ==
  /\ stage = "process" /\ TwoArgs /\ Exited
  /\ InputLacksKey
  /\ ~HasKey(JSONLoad(fs0.files[input_file]), "records_count")
  /\ exc = "KeyError"
  /\ exitCode = 1
  /\ output_file = <<"tmp", "new", "deep", "o.json">>
  /\ <<"tmp", "new">> \notin fs.dirs

====
